---- MODULE Spec2Model ----
(***************************************************************************)
(* Model of the CVHelper client: the App controller (App.js), the          *)
(* EditableList, FileUpload, ApiKeyInput and EvaluationTabs components.    *)
(* Strings are sequences of one-character strings so that trim(), filter() *)
(* and JSON.stringify() are computed, not assumed.                         *)
(***************************************************************************)
EXTENDS Integers, Sequences, FiniteSets, TLC

\* ---------------------------------------------------------------- bounds
MaxItems == 1        \* rows an EditableList may grow to
MaxEvals == 2        \* evaluations one response may carry

\* ---------------------------------------------------------------- inputs
\* text typed into a job URL / description row: "", " ", "a", " b"
JobStrs == {<<>>, <<" ">>, <<"a">>, <<" ", "b">>}
\* text typed into the API key field (or found in localStorage): "", " ", "k"
KeyStrs == {<<>>, <<" ">>, <<"k">>}
Files == {"cv1.pdf"}
Evals == {"e1", "e2"}

NoFile == "null"

SeqsUpTo(S, n) == UNION {[1..k -> S] : k \in 0..n}

\* ---------------------------------------------------------------- strings
IsSpace(c) == c \in {" ", "\t", "\n"}

RECURSIVE TrimStart(_)
TrimStart(s) ==
  IF s = <<>> THEN <<>>
  ELSE IF IsSpace(Head(s)) THEN TrimStart(Tail(s)) ELSE s

RECURSIVE TrimEnd(_)
TrimEnd(s) ==
  IF s = <<>> THEN <<>>
  ELSE IF IsSpace(s[Len(s)]) THEN TrimEnd(SubSeq(s, 1, Len(s) - 1)) ELSE s

\* String.prototype.trim
Trim(s) == TrimEnd(TrimStart(s))

\* a filter predicate that forgets to trim
KeepEntryNoTrim(s) == s # <<>>

\* the predicate of jobUrls.filter((url) => url.trim() !== '')
KeepEntry(s) == Trim(s) # <<>>

\* a filter that collects the kept entries in reverse
RECURSIVE FilterValidReversed(_)
FilterValidReversed(items) ==
  IF items = <<>> THEN <<>>
  ELSE FilterValidReversed(Tail(items))
         \o (IF KeepEntry(Head(items)) THEN <<Head(items)>> ELSE <<>>)

\* Array.prototype.filter with KeepEntry, left to right
RECURSIVE FilterValid(_)
FilterValid(items) ==
  IF items = <<>> THEN <<>>
  ELSE (IF KeepEntry(Head(items)) THEN <<Head(items)>> ELSE <<>>)
         \o FilterValid(Tail(items))

\* JSON.stringify of one string: quotes, with " and \ escaped
RECURSIVE JSONEscape(_)
JSONEscape(s) ==
  IF s = <<>> THEN <<>>
  ELSE (IF Head(s) \in {"\"", "\\"} THEN <<"\\", Head(s)>> ELSE <<Head(s)>>)
         \o JSONEscape(Tail(s))

JSONQuote(s) == <<"\"">> \o JSONEscape(s) \o <<"\"">>

RECURSIVE JSONJoin(_)
JSONJoin(items) ==
  IF items = <<>> THEN <<>>
  ELSE IF Len(items) = 1 THEN JSONQuote(Head(items))
  ELSE JSONQuote(Head(items)) \o <<",">> \o JSONJoin(Tail(items))

\* JSON.stringify of an array of strings
JSONStringify(items) == <<"[">> \o JSONJoin(items) \o <<"]">>

\* ---------------------------------------------------------------- state
VARIABLES
  cvFile,            \* App: useState(null)
  jobUrls,           \* App: useState([''])
  jobDescriptions,   \* App: useState([''])
  apiKey,            \* App: useState('')
  evaluations,       \* App: useState([])
  activeTab,         \* App: useState(0)
  loading,           \* App: useState(false)
  loadingMessage,    \* App: useState('')
  sidebarOpen,       \* App: useState(false)
  activePage,        \* App: useState('home')
  currentView,       \* App: useState('input')
  fileName,          \* FileUpload: useState(''), lost when FileUpload unmounts
  localStorage,      \* browser storage: function from key names to strings
  pending,           \* number of fetch() calls awaiting their response
  toasts,            \* notifications emitted by the most recent handler
  fetchCalls         \* FormData bodies sent by the most recent handler

vars == <<cvFile, jobUrls, jobDescriptions, apiKey, evaluations, activeTab,
          loading, loadingMessage, sidebarOpen, activePage, currentView,
          fileName, localStorage, pending, toasts, fetchCalls>>

\* ---------------------------------------------------------------- notifications
MsgMissingFile == "Please upload your CV file before submitting"
MsgNoJobTarget == "Please provide at least one job URL or description"
MsgMissingCredential == "API key is required"
MsgFailed == "Failed to evaluate"
MsgDetail == "detail from the service"
MsgParse == "Unexpected token in JSON"
MsgTransport == "Failed to fetch"

ToastError(m) == [type |-> "error", msg |-> m, n |-> 0]
ToastSuccess(count) == [type |-> "success", msg |-> "Successfully evaluated", n |-> count]

\* ---------------------------------------------------------------- rendering
\* renderPageContent: which component is on screen
FormMounted(page, view) == page = "home" /\ view = "input"
ResultsMounted(page, view) == page = "home" /\ view = "results"
SettingsMounted(page) == page = "settings"

\* FileUpload's local fileName survives only while FileUpload stays mounted
FileNameAfter(page, view, name) ==
  IF FormMounted(activePage, currentView) /\ FormMounted(page, view)
  THEN name ELSE ""

\* localStorage.getItem / setItem
EmptyStorage == [k \in {} |-> <<>>]
HasItem(k) == k \in DOMAIN localStorage

\* a setItem whose write is lost
SetItemDropped(k, v) == localStorage

SetItem(k, v) == [x \in (DOMAIN localStorage) \cup {k} |->
                    IF x = k THEN v ELSE localStorage[x]]

\* ApiKeyInput's mount effect: runs when Settings goes on screen
ApiKeyAfter(page, key) ==
  IF ~SettingsMounted(activePage) /\ SettingsMounted(page)
  THEN IF HasItem("apiKey") /\ localStorage["apiKey"] # <<>>
       THEN localStorage["apiKey"] ELSE key
  ELSE key

Init ==
  /\ cvFile = NoFile
  /\ jobUrls = << <<>> >>
  /\ jobDescriptions = << <<>> >>
  /\ apiKey = <<>>
  /\ evaluations = <<>>
  /\ activeTab = 0
  /\ loading = FALSE
  /\ loadingMessage = ""
  /\ sidebarOpen = FALSE
  /\ activePage = "home"
  /\ currentView = "input"
  /\ fileName = ""
  /\ localStorage \in {EmptyStorage} \cup {[k \in {"apiKey"} |-> v] : v \in KeyStrs}
  /\ pending = 0
  /\ toasts = <<>>
  /\ fetchCalls = <<>>

\* ---------------------------------------------------------------- App
toggleSidebar ==
  /\ sidebarOpen' = ~sidebarOpen
  /\ toasts' = <<>>
  /\ fetchCalls' = <<>>
  /\ UNCHANGED <<cvFile, jobUrls, jobDescriptions, apiKey, evaluations,
                 activeTab, loading, loadingMessage, activePage, currentView,
                 fileName, localStorage, pending>>

\* a navigateTo that flips the side panel
navigateToTogglingSidebar(page, narrow) ==
  /\ activePage' = page
  /\ sidebarOpen' = ~sidebarOpen
  /\ apiKey' = ApiKeyAfter(page, apiKey)
  /\ fileName' = FileNameAfter(page, currentView, fileName)

\* navigateTo(page); narrow is window.innerWidth < 768
navigateTo(page, narrow) ==
  /\ activePage' = page
  /\ sidebarOpen' = IF narrow THEN FALSE ELSE sidebarOpen
  /\ apiKey' = ApiKeyAfter(page, apiKey)
  /\ fileName' = FileNameAfter(page, currentView, fileName)

Navigate ==
  \E page \in {"home", "settings"}, narrow \in BOOLEAN :
    /\ navigateTo(page, narrow)
    /\ toasts' = <<>>
    /\ fetchCalls' = <<>>
    /\ UNCHANGED <<cvFile, jobUrls, jobDescriptions, evaluations, activeTab,
                   loading, loadingMessage, currentView, localStorage, pending>>

\* a Submit button that stays enabled while loading
SubmitEnabledWhileLoading == FormMounted(activePage, currentView)

\* the Submit button exists on the input form and is disabled while loading
SubmitEnabled == FormMounted(activePage, currentView) /\ ~loading

\* formData.append calls of handleSubmit, in order
FormDataCv == "cv" :> cvFile
FormDataUrls(fd, validJobUrls) ==
  IF Len(validJobUrls) > 0
  THEN fd @@ ("job_urls" :> JSONStringify(validJobUrls)) ELSE fd
FormDataDescs(fd, validJobDescriptions) ==
  IF Len(validJobDescriptions) > 0
  THEN fd @@ ("job_descriptions" :> JSONStringify(validJobDescriptions)) ELSE fd
FormDataKey(fd) == fd @@ ("api_key" :> apiKey)

\* a file check that never fires
FileMissingNever == FALSE

\* if (!cvFile)
FileMissing == cvFile = NoFile

\* if (validJobUrls.length === 0 && validJobDescriptions.length === 0)
NoJobTarget(validJobUrls, validJobDescriptions) ==
  Len(validJobUrls) = 0 /\ Len(validJobDescriptions) = 0

\* a credential check that forgets to trim
CredentialBlankNoTrim == apiKey = <<>>

\* if (!apiKey.trim())
CredentialBlank == Trim(apiKey) = <<>>

handleSubmit ==
  /\ SubmitEnabled
  /\ IF FileMissing
     THEN /\ toasts' = <<ToastError(MsgMissingFile)>>
          /\ loading' = FALSE
          /\ fetchCalls' = <<>>
          /\ UNCHANGED <<cvFile, jobUrls, jobDescriptions, apiKey, evaluations,
                         activeTab, loadingMessage, sidebarOpen, activePage,
                         currentView, fileName, localStorage, pending>>
     ELSE LET validJobUrls == FilterValid(jobUrls)
              validJobDescriptions == FilterValid(jobDescriptions)
              formData == FormDataKey(FormDataDescs(
                            FormDataUrls(FormDataCv, validJobUrls),
                            validJobDescriptions))
          IN IF NoJobTarget(validJobUrls, validJobDescriptions)
             THEN /\ toasts' = <<ToastError(MsgNoJobTarget)>>
                  /\ loading' = FALSE
                  /\ loadingMessage' = "Preparing your data..."
                  /\ fetchCalls' = <<>>
                  /\ UNCHANGED <<cvFile, jobUrls, jobDescriptions, apiKey,
                                 evaluations, activeTab, sidebarOpen, activePage,
                                 currentView, fileName, localStorage, pending>>
             ELSE IF CredentialBlank
             THEN /\ toasts' = <<ToastError(MsgMissingCredential)>>
                  /\ loading' = FALSE
                  /\ loadingMessage' = "Preparing your data..."
                  /\ \E narrow \in BOOLEAN : navigateTo("settings", narrow)
                  /\ fetchCalls' = <<>>
                  /\ UNCHANGED <<cvFile, jobUrls, jobDescriptions, evaluations,
                                 activeTab, currentView, localStorage, pending>>
             ELSE /\ loading' = TRUE
                  /\ loadingMessage' = "Analyzing your resume against job requirements..."
                  /\ fetchCalls' = <<formData>>
                  /\ pending' = pending + 1
                  /\ toasts' = <<>>
                  /\ UNCHANGED <<cvFile, jobUrls, jobDescriptions, apiKey,
                                 evaluations, activeTab, sidebarOpen, activePage,
                                 currentView, fileName, localStorage>>

\* what fetch() can settle with: a rejection, or a response whose body is
\* unparsable, or a JSON object with or without detail / evaluations
Bodies ==
  {[json |-> FALSE, detail |-> FALSE, hasEvaluations |-> FALSE, evaluations |-> <<>>]}
  \cup {[json |-> TRUE, detail |-> d, hasEvaluations |-> FALSE, evaluations |-> <<>>] :
          d \in BOOLEAN}
  \cup {[json |-> TRUE, detail |-> FALSE, hasEvaluations |-> TRUE, evaluations |-> l] :
          l \in SeqsUpTo(Evals, MaxEvals)}
Responses ==
  {[rejected |-> TRUE, ok |-> FALSE, body |-> b] : b \in {CHOOSE x \in Bodies : ~x.json}}
  \cup {[rejected |-> FALSE, ok |-> o, body |-> b] : o \in BOOLEAN, b \in Bodies}

\* the error the try block throws for a settled fetch, "" when it does not throw
ThrownMessage(resp) ==
  IF resp.rejected THEN MsgTransport
  ELSE IF ~resp.body.json THEN MsgParse
  ELSE IF ~resp.ok THEN (IF resp.body.detail THEN MsgDetail ELSE MsgFailed)
  ELSE ""

\* taking data.evaluations without the response.ok check
EvaluationsTakenUnchecked(resp) == resp.body.json /\ resp.body.hasEvaluations

\* if (data.evaluations) is reached and taken
EvaluationsTaken(resp) == ThrownMessage(resp) = "" /\ resp.body.hasEvaluations

\* a success that switches the view without storing the list
SetEvaluationsKept(resp) == evaluations

\* results that are appended to the previous ones
SetEvaluationsAppending(resp) == evaluations \o resp.body.evaluations

\* setEvaluations(data.evaluations)
SetEvaluations(resp) == resp.body.evaluations

\* a success that leaves the focused tab where it was
ActiveTabOnSuccessKept == activeTab

\* setActiveTab(0)
ActiveTabOnSuccess == 0

\* a setLoading(false) placed inside the try block, skipped by a throw
LoadingAfterSettleInTry(resp) == ThrownMessage(resp) # ""

\* setLoading(false) after the try/catch, reached on every path
LoadingAfterSettle(resp) == FALSE

\* the rest of handleSubmit, after await fetch(...)
handleSubmitSettled(resp) ==
  /\ pending > 0
  /\ pending' = pending - 1
  /\ IF EvaluationsTaken(resp)
     THEN /\ evaluations' = SetEvaluations(resp)
          /\ activeTab' = ActiveTabOnSuccess
          /\ toasts' = <<ToastSuccess(Len(resp.body.evaluations))>>
          /\ currentView' = "results"
     ELSE /\ toasts' = IF ThrownMessage(resp) # ""
                       THEN <<ToastError(ThrownMessage(resp))>> ELSE <<>>
          /\ UNCHANGED <<evaluations, activeTab, currentView>>
  /\ loading' = LoadingAfterSettle(resp)
  /\ loadingMessage' = ""
  /\ fileName' = FileNameAfter(activePage, currentView', fileName)
  /\ fetchCalls' = <<>>
  /\ UNCHANGED <<cvFile, jobUrls, jobDescriptions, apiKey, sidebarOpen,
                 activePage, localStorage>>

FetchSettles == \E resp \in Responses : handleSubmitSettled(resp)

\* "Back to Input Form" on the results view
BackToInput ==
  /\ ResultsMounted(activePage, currentView)
  /\ currentView' = "input"
  /\ fileName' = FileNameAfter(activePage, "input", fileName)
  /\ toasts' = <<>>
  /\ fetchCalls' = <<>>
  /\ UNCHANGED <<cvFile, jobUrls, jobDescriptions, apiKey, evaluations,
                 activeTab, loading, loadingMessage, sidebarOpen, activePage,
                 localStorage, pending>>

\* ---------------------------------------------------------------- EvaluationTabs
\* one tab button per evaluation; nothing is rendered for an empty list
SelectTab ==
  /\ ResultsMounted(activePage, currentView)
  /\ Len(evaluations) > 0
  /\ \E index \in 0..(Len(evaluations) - 1) : activeTab' = index
  /\ toasts' = <<>>
  /\ fetchCalls' = <<>>
  /\ UNCHANGED <<cvFile, jobUrls, jobDescriptions, apiKey, evaluations, loading,
                 loadingMessage, sidebarOpen, activePage, currentView, fileName,
                 localStorage, pending>>

\* ---------------------------------------------------------------- EditableList
\* indices are 0-based in the source, 1-based here
\* an empty slot of a JavaScript array
Hole == <<"empty slot">>

\* newItems = [...items]; newItems[index] = value: an index from the length
\* upwards grows the array, a negative index adds a property and no element
handleItemChange(items, index, value) ==
  IF index \in 1..Len(items) THEN [items EXCEPT ![index] = value]
  ELSE IF index > Len(items)
  THEN [i \in 1..index |-> IF i <= Len(items) THEN items[i]
                            ELSE IF i = index THEN value ELSE Hole]
  ELSE items

addItem(items) == Append(items, <<>>)

RECURSIVE FilterOutIndex(_, _, _)
FilterOutIndex(items, index, i) ==
  IF i > Len(items) THEN <<>>
  ELSE (IF i # index THEN <<items[i]>> ELSE <<>>)
         \o FilterOutIndex(items, index, i + 1)

\* a remove that puts one blank row back when the list becomes empty
removeItemReseeding(items, index) ==
  IF FilterOutIndex(items, index, 1) = <<>> THEN << <<>> >>
  ELSE FilterOutIndex(items, index, 1)

\* items.filter((_, i) => i !== index)
removeItem(items, index) == FilterOutIndex(items, index, 1)

ListFrame ==
  /\ toasts' = <<>>
  /\ fetchCalls' = <<>>
  /\ UNCHANGED <<cvFile, apiKey, evaluations, activeTab, loading,
                 loadingMessage, sidebarOpen, activePage, currentView, fileName,
                 localStorage, pending>>

EditJobUrl ==
  /\ FormMounted(activePage, currentView)
  /\ \E index \in 1..Len(jobUrls), value \in JobStrs :
       jobUrls' = handleItemChange(jobUrls, index, value)
  /\ UNCHANGED jobDescriptions
  /\ ListFrame

AddJobUrl ==
  /\ FormMounted(activePage, currentView)
  /\ Len(jobUrls) < MaxItems
  /\ jobUrls' = addItem(jobUrls)
  /\ UNCHANGED jobDescriptions
  /\ ListFrame

RemoveJobUrl ==
  /\ FormMounted(activePage, currentView)
  /\ \E index \in 1..Len(jobUrls) : jobUrls' = removeItem(jobUrls, index)
  /\ UNCHANGED jobDescriptions
  /\ ListFrame

EditJobDescription ==
  /\ FormMounted(activePage, currentView)
  /\ \E index \in 1..Len(jobDescriptions), value \in JobStrs :
       jobDescriptions' = handleItemChange(jobDescriptions, index, value)
  /\ UNCHANGED jobUrls
  /\ ListFrame

AddJobDescription ==
  /\ FormMounted(activePage, currentView)
  /\ Len(jobDescriptions) < MaxItems
  /\ jobDescriptions' = addItem(jobDescriptions)
  /\ UNCHANGED jobUrls
  /\ ListFrame

RemoveJobDescription ==
  /\ FormMounted(activePage, currentView)
  /\ \E index \in 1..Len(jobDescriptions) :
       jobDescriptions' = removeItem(jobDescriptions, index)
  /\ UNCHANGED jobUrls
  /\ ListFrame

\* ---------------------------------------------------------------- FileUpload
\* e.target.files: null, or a list of files (empty when the picker is cancelled)
NullFiles == [isNull |-> TRUE, list |-> <<>>]
FileList(l) == [isNull |-> FALSE, list |-> l]

\* App.handleCvChange: setCvFile(e.target.files[0]); reading [0] of null throws
\* before setCvFile is called, an empty list yields undefined
handleCvChange(files) ==
  IF files.isNull THEN cvFile
  ELSE IF files.list = <<>> THEN NoFile
  ELSE files.list[1]

FileFrame ==
  /\ toasts' = <<>>
  /\ fetchCalls' = <<>>
  /\ UNCHANGED <<jobUrls, jobDescriptions, apiKey, evaluations, activeTab,
                 loading, loadingMessage, sidebarOpen, activePage, currentView,
                 localStorage, pending>>

\* the file input is rendered only while no file name is shown
handleChange ==
  /\ FormMounted(activePage, currentView)
  /\ fileName = ""
  /\ \E l \in SeqsUpTo(Files, 2) :
       IF l # <<>>
       THEN /\ fileName' = l[1]
            /\ cvFile' = handleCvChange(FileList(l))
       ELSE UNCHANGED <<fileName, cvFile>>
  /\ FileFrame

handleDrop ==
  /\ FormMounted(activePage, currentView)
  /\ \E l \in SeqsUpTo(Files, 2) :
       IF l # <<>>
       THEN /\ fileName' = l[1]
            /\ cvFile' = handleCvChange(FileList(<<l[1]>>))
       ELSE UNCHANGED <<fileName, cvFile>>
  /\ FileFrame

\* the clear button is rendered only while a file name is shown
clearFile ==
  /\ FormMounted(activePage, currentView)
  /\ fileName # ""
  /\ fileName' = ""
  /\ cvFile' = handleCvChange(NullFiles)
  /\ FileFrame

\* ---------------------------------------------------------------- ApiKeyInput
handleApiKeyChangeTo(newApiKey) ==
  /\ apiKey' = newApiKey
  /\ localStorage' = SetItem("apiKey", newApiKey)

handleApiKeyChange ==
  /\ SettingsMounted(activePage)
  /\ \E newApiKey \in KeyStrs : handleApiKeyChangeTo(newApiKey)
  /\ toasts' = <<>>
  /\ fetchCalls' = <<>>
  /\ UNCHANGED <<cvFile, jobUrls, jobDescriptions, evaluations, activeTab,
                 loading, loadingMessage, sidebarOpen, activePage, currentView,
                 fileName, pending>>

Next ==
  \/ toggleSidebar
  \/ Navigate
  \/ handleSubmit
  \/ FetchSettles
  \/ BackToInput
  \/ SelectTab
  \/ EditJobUrl
  \/ AddJobUrl
  \/ RemoveJobUrl
  \/ EditJobDescription
  \/ AddJobDescription
  \/ RemoveJobDescription
  \/ handleChange
  \/ handleDrop
  \/ clearFile
  \/ handleApiKeyChange

Spec == Init /\ [][Next]_vars

\* ---------------------------------------------------------------- payload
\* handleSubmit applied to every draft of up to MaxPayloadItems rows per list
MaxPayloadItems == 3

InitPayload ==
  /\ cvFile \in Files
  /\ fileName = cvFile
  /\ jobUrls \in SeqsUpTo(JobStrs, MaxPayloadItems)
  /\ jobDescriptions \in SeqsUpTo(JobStrs, MaxPayloadItems)
  /\ apiKey = <<"k">>
  /\ localStorage = [k \in {"apiKey"} |-> <<"k">>]
  /\ evaluations = <<>>
  /\ activeTab = 0
  /\ loading = FALSE
  /\ loadingMessage = ""
  /\ sidebarOpen = FALSE
  /\ activePage = "home"
  /\ currentView = "input"
  /\ pending = 0
  /\ toasts = <<>>
  /\ fetchCalls = <<>>

NextPayload ==
  \/ handleSubmit
  \/ FetchSettles

SpecPayload == InitPayload /\ [][NextPayload]_vars

\* ---------------------------------------------------------------- EvaluationDetail
\* score_and_explanation is a sequence of tokens: the fence markers, whitespace,
\* stray prose, and one token per document the service may embed
FenceJson == "[fence json]"
Fence == "[fence]"
Prose == "Here is the result:"

\* what JSON.parse yields for a document token; parses is FALSE when it throws
\* (fields are the top-level properties that hold an object)
DocNotJson == "not json at all"
DocFull == "{overall_score,experience,skills,personality,overall_explanation}"
DocNoOverall == "{experience,skills,personality}"
DocNoExperience == "{overall_score,skills,personality,overall_explanation}"
DocNoPersonality == "{overall_score,experience,skills,overall_explanation}"
DocOnlyOverall == "{overall_score}"
DocNull == "null"
DocNumber == "85"

Docs == {DocNotJson, DocFull, DocNoOverall, DocNoExperience, DocNoPersonality,
         DocOnlyOverall, DocNull, DocNumber}

DocParses(d) == d # DocNotJson
DocTruthy(d) == d \notin {DocNotJson, DocNull}
DocFields(d) ==
  IF d \in {DocFull, DocNoOverall} THEN {"experience", "skills", "personality"}
  ELSE IF d = DocNoExperience THEN {"skills", "personality"}
  ELSE IF d = DocNoPersonality THEN {"experience", "skills"}
  ELSE {}

\* the texts a response may carry: bare, fenced, fenced without the language
\* tag, or with prose in front of the fence
ScoreTexts ==
  UNION {{<<d>>,
          <<FenceJson, "\n", d, "\n", Fence>>,
          <<Fence, "\n", d, "\n", Fence>>,
          <<Prose, "\n", FenceJson, "\n", d, "\n", Fence>>} : d \in Docs}

DetailEvals ==
  {[job_title |-> "title", score_and_explanation |-> t] : t \in ScoreTexts}

\* .replace(/[fence json]|[fence]/g, ''), the fences being three backquotes
RECURSIVE StripFences(_)
StripFences(t) ==
  IF t = <<>> THEN <<>>
  ELSE (IF Head(t) \in {FenceJson, Fence} THEN <<>> ELSE <<Head(t)>>)
         \o StripFences(Tail(t))

\* JSON.parse(jsonString) inside the try block: scoreData, or null after a throw
ScoreData(evaluation) ==
  LET jsonString == Trim(StripFences(evaluation.score_and_explanation))
  IN IF Len(jsonString) = 1 /\ jsonString[1] \in Docs /\ DocParses(jsonString[1])
     THEN [isNull |-> jsonString[1] = DocNull, doc |-> jsonString[1]]
     ELSE [isNull |-> TRUE, doc |-> DocNull]

\* the JSX of EvaluationDetail: scoreData ? score cards : <pre>raw text</pre>;
\* scoreData.experience.score and its siblings throw when the object is missing
RenderDetail(evaluation) ==
  LET scoreData == ScoreData(evaluation)
  IN IF ~scoreData.isNull /\ DocTruthy(scoreData.doc)
     THEN IF {"experience", "skills", "personality"} \subseteq DocFields(scoreData.doc)
          THEN [shows |-> "scores", text |-> <<scoreData.doc>>]
          ELSE [shows |-> "crash", text |-> <<>>]
     ELSE [shows |-> "raw", text |-> evaluation.score_and_explanation]

\* EvaluationTabs hands evaluations[activeTab] to EvaluationDetail
DetailShown == ResultsMounted(activePage, currentView) /\ Len(evaluations) > 0

\* the results view right after a success that carried the given evaluations
InitRender ==
  /\ evaluations \in SeqsUpTo(DetailEvals, MaxEvals) \ {<<>>}
  /\ activeTab = 0
  /\ currentView = "results"
  /\ activePage = "home"
  /\ cvFile \in Files
  /\ fileName = ""
  /\ jobUrls = << <<"a">> >>
  /\ jobDescriptions = << <<>> >>
  /\ apiKey = <<"k">>
  /\ localStorage = [k \in {"apiKey"} |-> <<"k">>]
  /\ loading = FALSE
  /\ loadingMessage = ""
  /\ sidebarOpen = FALSE
  /\ pending = 0
  /\ toasts = <<ToastSuccess(Len(evaluations))>>
  /\ fetchCalls = <<>>

NextRender ==
  \/ SelectTab
  \/ Navigate

SpecRender == InitRender /\ [][NextRender]_vars

\* ---------------------------------------------------------------- score bands
\* the totals the JSX passes to getScoreColor / getScoreLabel
TotalOverall == 100
TotalExperience == 40
TotalSkills == 40
TotalPersonality == 20

\* score / total * 100, kept as its integer part: every comparison below is
\* against an integer, which the fractional part cannot change
Percentage(score, total) == (score * 100) \div total

\* a colour class chosen from the raw score instead of the percentage
getScoreColorAbsolute(score, total) ==
  IF score >= 80 THEN "score-excellent"
  ELSE IF score >= 60 THEN "score-good"
  ELSE IF score >= 40 THEN "score-average"
  ELSE "score-poor"

getScoreColor(score, total) ==
  LET percentage == Percentage(score, total)
  IN IF percentage >= 80 THEN "score-excellent"
     ELSE IF percentage >= 60 THEN "score-good"
     ELSE IF percentage >= 40 THEN "score-average"
     ELSE "score-poor"

getScoreLabel(score, total) ==
  LET percentage == Percentage(score, total)
  IN IF percentage >= 80 THEN "Excellent"
     ELSE IF percentage >= 60 THEN "Good"
     ELSE IF percentage >= 40 THEN "Average"
     ELSE "Poor"

\* the numbers a complete document holds; together the inputs run through
\* every overall score 0..100 and every sub-score 0..40 and 0..20
ScoreInputs ==
  {[overall_score |-> o,
    experience |-> o % (TotalExperience + 1),
    skills |-> TotalSkills - (o % (TotalSkills + 1)),
    personality |-> o % (TotalPersonality + 1)] : o \in 0..TotalOverall}

BandEvals ==
  {[job_title |-> "title",
    score_and_explanation |-> <<FenceJson, "\n", DocFull, "\n", Fence>>,
    scores |-> sc] : sc \in ScoreInputs}

\* the (score, total) pairs the score cards of one evaluation are drawn for
ScorePairs(evaluation) ==
  {<<evaluation.scores.overall_score, TotalOverall>>,
   <<evaluation.scores.experience, TotalExperience>>,
   <<evaluation.scores.skills, TotalSkills>>,
   <<evaluation.scores.personality, TotalPersonality>>}

\* the results view showing one complete evaluation
InitBands ==
  /\ evaluations \in {<<e>> : e \in BandEvals}
  /\ activeTab = 0
  /\ currentView = "results"
  /\ activePage = "home"
  /\ cvFile \in Files
  /\ fileName = ""
  /\ jobUrls = << <<"a">> >>
  /\ jobDescriptions = << <<>> >>
  /\ apiKey = <<"k">>
  /\ localStorage = [k \in {"apiKey"} |-> <<"k">>]
  /\ loading = FALSE
  /\ loadingMessage = ""
  /\ sidebarOpen = FALSE
  /\ pending = 0
  /\ toasts = <<ToastSuccess(1)>>
  /\ fetchCalls = <<>>

NextBands ==
  \/ SelectTab
  \/ Navigate

SpecBands == InitBands /\ [][NextBands]_vars

\* ---------------------------------------------------------------- list editor
\* EditableList on drafts of MaxListItems job URL rows and one description row
MaxListItems == 3

\* handleItemChange called with any index from -1 to the length (0-based); an
\* index equal to the length grows the list, which MaxListItems caps
EditJobUrlAt ==
  /\ FormMounted(activePage, currentView)
  /\ \E index \in 0..(Len(jobUrls) + 1), value \in JobStrs :
       /\ index <= MaxListItems
       /\ jobUrls' = handleItemChange(jobUrls, index, value)
  /\ UNCHANGED jobDescriptions
  /\ ListFrame

InitList ==
  /\ jobUrls \in [1..MaxListItems -> JobStrs]
  /\ jobDescriptions \in [1..1 -> JobStrs]
  /\ cvFile = NoFile
  /\ apiKey = <<>>
  /\ evaluations = <<>>
  /\ activeTab = 0
  /\ loading = FALSE
  /\ loadingMessage = ""
  /\ sidebarOpen = FALSE
  /\ activePage = "home"
  /\ currentView = "input"
  /\ fileName = ""
  /\ localStorage = EmptyStorage
  /\ pending = 0
  /\ toasts = <<>>
  /\ fetchCalls = <<>>

NextList ==
  \/ EditJobUrl
  \/ AddJobUrl
  \/ RemoveJobUrl
  \/ EditJobDescription
  \/ AddJobDescription
  \/ RemoveJobDescription

SpecList == InitList /\ [][NextList]_vars

NextListAt ==
  \/ NextList
  \/ EditJobUrlAt

SpecListAt == InitList /\ [][NextListAt]_vars

\* ---------------------------------------------------------------- restart
\* reloading the page: App starts again from its useState defaults, a pending
\* request is abandoned, and only localStorage survives
Restart ==
  /\ cvFile' = NoFile
  /\ jobUrls' = << <<>> >>
  /\ jobDescriptions' = << <<>> >>
  /\ apiKey' = <<>>
  /\ evaluations' = <<>>
  /\ activeTab' = 0
  /\ loading' = FALSE
  /\ loadingMessage' = ""
  /\ sidebarOpen' = FALSE
  /\ activePage' = "home"
  /\ currentView' = "input"
  /\ fileName' = ""
  /\ pending' = 0
  /\ toasts' = <<>>
  /\ fetchCalls' = <<>>
  /\ UNCHANGED localStorage

NextCredential ==
  \/ Next
  \/ Restart

SpecCredential == Init /\ [][NextCredential]_vars

\* ---------------------------------------------------------------- liveness
\* the browser settles every fetch() promise: a pending request is answered
SpecLive == Init /\ [][Next]_vars /\ WF_vars(FetchSettles)

\* ---------------------------------------------------------------- properties
\* a string with no character other than whitespace
Blank(s) == \A j \in 1..Len(s) : IsSpace(s[j])
AllBlank(items) == \A i \in 1..Len(items) : Blank(items[i])
\* the entries that are not blank, in their original order
NonBlankEntries(items) == SelectSeq(items, LAMBDA s : ~Blank(s))

\* reading a JSON array of strings back from its text
RECURSIVE JSONScan(_, _, _, _, _)
JSONScan(t, i, inString, cur, acc) ==
  IF i > Len(t) THEN acc
  ELSE IF ~inString
       THEN IF t[i] = "\"" THEN JSONScan(t, i + 1, TRUE, <<>>, acc)
            ELSE IF t[i] = "]" THEN acc
            ELSE JSONScan(t, i + 1, FALSE, cur, acc)
       ELSE IF t[i] = "\\" THEN JSONScan(t, i + 2, TRUE, Append(cur, t[i + 1]), acc)
            ELSE IF t[i] = "\"" THEN JSONScan(t, i + 1, FALSE, <<>>, Append(acc, cur))
            ELSE JSONScan(t, i + 1, TRUE, Append(cur, t[i]), acc)
JSONParse(t) == JSONScan(t, 2, FALSE, <<>>, <<>>)

\* a response with a success status whose body carries an evaluations list
SuccessWithList(resp) ==
  ~resp.rejected /\ resp.ok /\ resp.body.json /\ resp.body.hasEvaluations

NoRequest == fetchCalls' = <<>> /\ pending' = pending

\* C1: a submit with no file held by the controller sends no request, reports
\* MissingFile, leaves loading false and leaves results, active tab, view and
\* page as they were.
C1_MissingFile ==
  [][(handleSubmit /\ cvFile = NoFile) =>
       /\ NoRequest
       /\ toasts' = <<ToastError(MsgMissingFile)>>
       /\ ~loading /\ ~loading'
       /\ UNCHANGED <<evaluations, activeTab, currentView, activePage>>]_vars

\* MissingFile was reported although a job URL and a credential were filled in
C1_Witness ==
  /\ toasts = <<ToastError(MsgMissingFile)>>
  /\ cvFile = NoFile
  /\ ~AllBlank(jobUrls)
  /\ ~Blank(apiKey)
  /\ pending = 0

\* C2: a submit with a file but only blank job URLs and descriptions sends no
\* request and reports NoJobTarget, whether or not the credential is blank, and
\* does not switch the page.
C2_NoJobTarget ==
  [][(handleSubmit /\ cvFile # NoFile /\ AllBlank(jobUrls) /\ AllBlank(jobDescriptions)) =>
       /\ NoRequest
       /\ toasts' = <<ToastError(MsgNoJobTarget)>>
       /\ ~loading'
       /\ activePage' = activePage]_vars

\* NoJobTarget was reported for a whitespace-only URL with a blank credential
C2_Witness ==
  /\ toasts = <<ToastError(MsgNoJobTarget)>>
  /\ cvFile # NoFile
  /\ \E i \in 1..Len(jobUrls) : jobUrls[i] = <<" ">>
  /\ Blank(apiKey)
  /\ activePage = "home"

\* C3: a submit with a file and a non-blank job target but a blank credential
\* sends no request, reports MissingCredential, shows the Settings page and is
\* idle again, with results, active tab and view as they were.
C3_MissingCredential ==
  [][(/\ handleSubmit
      /\ cvFile # NoFile
      /\ ~(AllBlank(jobUrls) /\ AllBlank(jobDescriptions))
      /\ Blank(apiKey)) =>
       /\ NoRequest
       /\ toasts' = <<ToastError(MsgMissingCredential)>>
       /\ activePage' = "settings"
       /\ ~loading'
       /\ UNCHANGED <<evaluations, activeTab, currentView>>]_vars

\* MissingCredential was reported for a whitespace-only credential
C3_Witness ==
  /\ toasts = <<ToastError(MsgMissingCredential)>>
  /\ activePage = "settings"
  /\ apiKey = <<" ">>
  /\ ~loading

\* C4: the job_urls (job_descriptions) field of a sent payload decodes to the
\* non-blank entries of the list in their original order, and the field is
\* absent exactly when there is no such entry.
C4_PayloadLists ==
  \A c \in 1..Len(fetchCalls) :
    LET fd == fetchCalls[c] IN
      /\ ("job_urls" \in DOMAIN fd) <=> (NonBlankEntries(jobUrls) # <<>>)
      /\ ("job_urls" \in DOMAIN fd) =>
            JSONParse(fd["job_urls"]) = NonBlankEntries(jobUrls)
      /\ ("job_descriptions" \in DOMAIN fd) <=> (NonBlankEntries(jobDescriptions) # <<>>)
      /\ ("job_descriptions" \in DOMAIN fd) =>
            JSONParse(fd["job_descriptions"]) = NonBlankEntries(jobDescriptions)

\* a payload was sent for blanks around two URLs, with no description given
C4_Witness ==
  /\ Len(fetchCalls) = 1
  /\ jobUrls = << <<>>, <<" ", "b">>, <<"a">> >>
  /\ JSONParse(fetchCalls[1]["job_urls"]) = << <<" ", "b">>, <<"a">> >>
  /\ "job_descriptions" \notin DOMAIN fetchCalls[1]

\* C5: a success response with an evaluations list replaces the results by that
\* list, sets the active tab to 0 and the view to "results".
C5_SuccessReplaces ==
  [][\A resp \in Responses :
       (handleSubmitSettled(resp) /\ SuccessWithList(resp)) =>
         /\ evaluations' = resp.body.evaluations
         /\ activeTab' = 0
         /\ currentView' = "results"]_vars

\* a one-evaluation success arrived while the Settings page was shown
C5_Witness ==
  /\ toasts = <<ToastSuccess(1)>>
  /\ Len(evaluations) = 1
  /\ activeTab = 0
  /\ currentView = "results"
  /\ activePage = "settings"

\* C6: results, active tab and view are not changed by issuing a request, by
\* anything done while it is awaited, or by a failed outcome; the results change
\* only in the step that handles a success response.
C6_FailureKeepsResults ==
  [][/\ (handleSubmit \/ (loading /\ loading')) =>
          UNCHANGED <<evaluations, activeTab, currentView>>
     /\ \A resp \in Responses :
          (handleSubmitSettled(resp) /\ ~SuccessWithList(resp)) =>
             UNCHANGED <<evaluations, activeTab, currentView>>
     /\ (evaluations' # evaluations) =>
          \E resp \in Responses :
             handleSubmitSettled(resp) /\ SuccessWithList(resp)]_vars

\* a service error was reported while earlier results and the second tab stayed
C6_Witness ==
  /\ toasts = <<ToastError(MsgDetail)>>
  /\ Len(evaluations) = 2
  /\ activeTab = 1
  /\ currentView = "input"
  /\ ~loading

\* C7: at most one request is awaiting its response, a request is sent only
\* when none is awaited, and loading is true exactly while one is awaited.
C7_OneInFlight ==
  /\ pending <= 1
  /\ Len(fetchCalls) <= pending
  /\ loading <=> (pending = 1)

\* a request is awaited while the user sits on Settings with the side panel open
C7_Witness ==
  /\ pending = 1
  /\ loading
  /\ activePage = "settings"
  /\ sidebarOpen
  /\ jobUrls = <<>>

\* C8 as claimed: a submit is rejected with MissingCredential only when durable
\* storage holds no non-blank credential.
C8_AsClaimed ==
  (toasts = <<ToastError(MsgMissingCredential)>>) =>
     ~(HasItem("apiKey") /\ ~Blank(localStorage["apiKey"]))

\* C9 as claimed: clear() leaves the controller without a file reference.
C9_AsClaimed == [][clearFile => cvFile' = NoFile]_vars

\* C10 as claimed: every submission attempt that fails, before or after the
\* request, emits exactly one error notification.
C10_AsClaimed ==
  [][((handleSubmit /\ fetchCalls' = <<>>)
       \/ \E resp \in Responses : handleSubmitSettled(resp) /\ ~SuccessWithList(resp)) =>
       (Len(toasts') = 1 /\ toasts'[1].type = "error")]_vars

\* C11: whenever loading is true (a submit entered Submitting) the controller
\* is eventually idle again with loading false, given that the pending request
\* settles; the submit paths that fail validation end with loading false at once.
C11_ReturnsToIdle ==
  /\ loading ~> (~loading /\ pending = 0)
  /\ [][(handleSubmit /\ fetchCalls' = <<>>) => ~loading']_vars

\* idle again after a rejected request
C11_Witness ==
  /\ ~loading
  /\ pending = 0
  /\ toasts = <<ToastError(MsgTransport)>>

\* the document a text carries once fences and surrounding whitespace are gone,
\* when the text is nothing but that document
CarriesDoc(t, d) ==
  \E pre, post \in SeqsUpTo({FenceJson, Fence, "\n"}, 2) : t = pre \o <<d>> \o post
\* a complete ScoreBreakdown: JSON with the experience, skills and personality objects
CompleteBreakdown(t) ==
  \E d \in {DocFull, DocNoOverall} : CarriesDoc(t, d)

\* C12 as claimed: the evaluation on screen shows the scored breakdown when its
\* text carries a complete breakdown, and otherwise shows the raw text verbatim;
\* rendering never throws.
C12_AsClaimed ==
  DetailShown =>
    LET evaluation == evaluations[activeTab + 1]
        out == RenderDetail(evaluation)
    IN IF CompleteBreakdown(evaluation.score_and_explanation)
       THEN out.shows = "scores"
       ELSE out.shows = "raw" /\ out.text = evaluation.score_and_explanation

\* the band of a score by its share of the maximum, without dividing
BandOf(sc, max) ==
  IF 100 * sc >= 80 * max THEN "Excellent"
  ELSE IF 100 * sc >= 60 * max THEN "Good"
  ELSE IF 100 * sc >= 40 * max THEN "Average"
  ELSE "Poor"
ClassOf(band) ==
  CASE band = "Excellent" -> "score-excellent"
    [] band = "Good" -> "score-good"
    [] band = "Average" -> "score-average"
    [] band = "Poor" -> "score-poor"

\* C13: for every score drawn on screen, against its own maximum of 100, 40 or
\* 20, the label is the band of the percentage (80 / 60 / 40 thresholds) and the
\* colour class names the same band.
C13_Bands ==
  DetailShown /\ RenderDetail(evaluations[activeTab + 1]).shows = "scores" =>
    \A pair \in ScorePairs(evaluations[activeTab + 1]) :
      /\ getScoreLabel(pair[1], pair[2]) = BandOf(pair[1], pair[2])
      /\ getScoreColor(pair[1], pair[2]) = ClassOf(BandOf(pair[1], pair[2]))

\* experience 32 of 40 is shown as excellent while overall 32 of 100 is poor
C13_Witness ==
  /\ DetailShown
  /\ toasts = <<>>
  /\ evaluations[1].scores.experience = 32
  /\ getScoreColor(evaluations[1].scores.experience, TotalExperience) = "score-excellent"
  /\ getScoreLabel(evaluations[1].scores.overall_score, TotalOverall) = "Poor"
  /\ evaluations[1].scores.personality = 11
  /\ getScoreColor(evaluations[1].scores.personality, TotalPersonality) = "score-average"

\* the credential in memory is the one in durable storage
CredentialInSync == HasItem("apiKey") /\ apiKey = localStorage["apiKey"]

\* C14: an edit of the credential leaves memory and storage both holding the
\* typed value; from then on they stay equal until the page is reloaded; and
\* whenever the credential input is mounted, also after a reload, memory holds
\* the stored value.
C14_CredentialRoundTrip ==
  [][/\ \A v \in KeyStrs :
          (SettingsMounted(activePage) /\ handleApiKeyChangeTo(v)) =>
             (apiKey' = v /\ HasItem("apiKey")' /\ localStorage'["apiKey"] = v)
     /\ (CredentialInSync /\ ~Restart) => CredentialInSync'
     /\ (~SettingsMounted(activePage) /\ SettingsMounted(activePage') /\ HasItem("apiKey")) =>
          CredentialInSync']_vars

\* Settings is on screen with no other state than a fresh start would have, and
\* memory holds the stored credential
C14_Witness ==
  /\ SettingsMounted(activePage)
  /\ CredentialInSync
  /\ apiKey = <<"k">>
  /\ cvFile = NoFile
  /\ evaluations = <<>>

\* items with the element at index taken out and the later ones moved up
WithoutIndex(old, new, index) ==
  /\ Len(new) = Len(old) - 1
  /\ \A i \in 1..Len(new) : new[i] = IF i < index THEN old[i] ELSE old[i + 1]

\* C15: remove(index) with a valid index takes out exactly that row, keeps the
\* others in order, and leaves an empty list (no blank row put back) when the
\* last row is removed.
C15_RemoveExact ==
  [][/\ \A index \in 1..Len(jobUrls) :
          (RemoveJobUrl /\ jobUrls' = removeItem(jobUrls, index)) =>
             WithoutIndex(jobUrls, jobUrls', index)
     /\ \A index \in 1..Len(jobDescriptions) :
          (RemoveJobDescription /\ jobDescriptions' = removeItem(jobDescriptions, index)) =>
             WithoutIndex(jobDescriptions, jobDescriptions', index)]_vars

\* both lists were emptied by removals, the URL rows one after another
C15_Witness ==
  /\ jobUrls = <<>>
  /\ jobDescriptions = <<>>

\* C16 as claimed: edit(index, value) with an index outside the list leaves
\* the list as it was, and with a valid index replaces only that row.
C16_AsClaimed ==
  [][\A index \in 0..(Len(jobUrls) + 1), value \in JobStrs :
       (EditJobUrlAt /\ jobUrls' = handleItemChange(jobUrls, index, value)) =>
          IF index \in 1..Len(jobUrls)
          THEN /\ Len(jobUrls') = Len(jobUrls)
               /\ \A i \in 1..Len(jobUrls) :
                    jobUrls'[i] = IF i = index THEN value ELSE jobUrls[i]
          ELSE jobUrls' = jobUrls]_vars

\* C17: whenever there are results, the focused tab index is one of them.
C17_TabInRange ==
  Len(evaluations) > 0 => activeTab \in 0..(Len(evaluations) - 1)

\* the second of two results is focused on the results view
C17_Witness ==
  /\ DetailShown
  /\ Len(evaluations) = 2
  /\ activeTab = 1

\* C18 as claimed: while the File Selector is on screen it shows a file exactly
\* when the controller holds one.
C18_AsClaimed ==
  FormMounted(activePage, currentView) => ((fileName # "") <=> (cvFile # NoFile))

\* C19 as claimed: on the results view the results collection is not empty.
C19_AsClaimed == (currentView = "results") => Len(evaluations) > 0

\* C19 amended: the view is "input" at the start and turns to "results" only in
\* the step that handles a success response carrying an evaluations list, which
\* becomes the results collection and may be empty.
C19_ResultsOnlyBySuccess ==
  [][(currentView # "results" /\ currentView' = "results") =>
       \E resp \in Responses :
          /\ SuccessWithList(resp)
          /\ handleSubmitSettled(resp)
          /\ evaluations' = resp.body.evaluations]_vars

\* the results view after a success that carried an empty list
C19_Witness ==
  /\ currentView = "results"
  /\ evaluations = <<>>
  /\ toasts = <<ToastSuccess(0)>>

\* C20: a navigation step leaves view, file, job lists, results, focused tab,
\* loading and the pending request as they were and opens no side panel; a
\* success handled while Settings is shown sets the view and keeps the page.
C20_NavigationFrame ==
  [][/\ Navigate =>
          /\ UNCHANGED <<currentView, cvFile, jobUrls, jobDescriptions,
                         evaluations, activeTab, loading, pending>>
          /\ sidebarOpen' \in {sidebarOpen, FALSE}
     /\ \A resp \in Responses :
          (handleSubmitSettled(resp) /\ SuccessWithList(resp)) =>
             (currentView' = "results" /\ activePage' = activePage)]_vars

\* two results arrived while Settings was shown, after a trip there mid-request
C20_Witness ==
  /\ activePage = "settings"
  /\ currentView = "results"
  /\ toasts = <<ToastSuccess(2)>>
  /\ Len(evaluations) = 2
  /\ cvFile # NoFile
====
